---- MODULE Spec2Model ----
(***************************************************************************)
(* Model of the registration bot of src/main.rs: register_hotkey's startup *)
(* sequence, its polling driver loop (dedup gate, slot filter, submission, *)
(* submission-error classification) and the finalization tasks it spawns.  *)
(* Each bot process is an index p; a deployment is one process (Spec) or   *)
(* three processes with distinct slots (SpecFleet).                        *)
(***************************************************************************)
EXTENDS Integers, Sequences, FiniteSets, TLC

\* ------------------------------------------------------------------ bounds
\* Block numbers the chain endpoint may report are 0..MaxBlock.
MaxBlock == 4
\* --slot values tried are 0..MaxSlot (the u32 is not validated).
MaxSlot == 3
\* Error payloads are token sequences of length 0..MaxPayloadLen.
MaxPayloadLen == 2
\* Cap on loop_count (a u64 in the code, never reached in practice).
MaxLoopCount == 4
\* The same bounds for the three-process deployment.
MaxFleetBlock == 3
MaxFleetPayloadLen == 0

\* ------------------------------------------------------- program constants
\* block_number % 3: the slot window is three blocks wide.
PartitionCount == 3
\* #[clap(long, default_value = "0")] slot: u32.
DefaultSlot == 0

\* ------------------------------------------------------------ error text
\* An error payload is format!("{:?}", e): modelled as a sequence of tokens;
\* a pattern of str::contains is a token sequence matched contiguously.
Vocabulary == {"nonce", "AlreadyRegistered", "already", "registered", "Stale", "Custom"}

Payloads(len) == UNION {[1..k -> Vocabulary] : k \in 0..len}

ContainsAt(s, pat, i) == \A j \in 1..Len(pat) : s[i + j - 1] = pat[j]

Contains(s, pat) == \E i \in 1..(Len(s) - Len(pat) + 1) : ContainsAt(s, pat, i)

ContainsAny(s, pats) == \E pat \in pats : Contains(s, pat)

\* The submission-time list without its nonce entry.
SubmitRecoverablePatternsNoNonce ==
    { <<"TooManyConsumers">>, <<"InvalidTransaction">>, <<"Stale">>,
      <<"outdated">>, <<"Transaction", "is", "outdated">> }

SubmitRecoverablePatterns ==
    { <<"TooManyConsumers">>, <<"InvalidTransaction">>, <<"Stale">>, <<"nonce">>,
      <<"outdated">>, <<"Transaction", "is", "outdated">> }

FinalAlreadyPatterns ==
    { <<"AlreadyRegistered">>, <<"already", "registered">>, <<"duplicate">> }

FinalRecoverablePatterns ==
    { <<"TooManyConsumers">>, <<"InvalidTransaction">>, <<"Stale">>, <<"nonce">>,
      <<"outdated">> }

\* Submission-time classification: warn!("Recoverable error detected ...") or
\* error!("Transaction submission failed ...").
ClassifySubmit(e) ==
    IF ContainsAny(e, SubmitRecoverablePatterns) THEN "Recoverable" ELSE "Fatal"

\* Finalization-time classification inside the spawned task.
ClassifyFinal(e) ==
    IF ContainsAny(e, FinalAlreadyPatterns) THEN "AlreadyDone"
    ELSE IF ContainsAny(e, FinalRecoverablePatterns) THEN "Recoverable"
    ELSE "Fatal"

\* ------------------------------------------------------------------ state
VARIABLES
    slot_arg,              \* the --slot argument of each process, -1 when not given
    slot,                  \* params.slot of each process
    status,                \* "starting" | "running" | "exit_failure"
    last_submitted_block,  \* the loop's dedup mark
    loop_count,            \* the loop's attempt counter
    attempts,              \* history: block -> number of sign_and_submit calls
    trackers,              \* spawned finalization tasks: block_num -> "pending" |
                           \*   "finalized" | "failed"
    dispatched,            \* history: number of Ok returns of sign_and_submit_then_watch
    maxFed,                \* history: largest block number fetched so far, -1 if none
    event                  \* what the last step did (the log line it wrote)

vars == <<slot_arg, slot, status, last_submitted_block, loop_count, attempts, trackers,
          dispatched, maxFed, event>>

Procs == DOMAIN status

NoFn == [x \in {} |-> 0]

Event(p, kind, block, payload, class) ==
    [proc |-> p, kind |-> kind, block |-> block, payload |-> payload, class |-> class]

\* A --slot that parses to the slot of an argument left out.
ParseSlotDefaultOne(arg) == IF arg = -1 THEN 1 ELSE arg

\* RegistrationParams::parse(): the value given, or the default.
ParseSlot(arg) == IF arg = -1 THEN DefaultSlot ELSE arg

InitProcs(P, S) ==
    /\ slot_arg \in [P -> S \cup {-1}]
    /\ slot = [p \in P |-> ParseSlot(slot_arg[p])]
    /\ status = [p \in P |-> "starting"]
    /\ last_submitted_block = [p \in P |-> 0]
    /\ loop_count = [p \in P |-> 0]
    /\ attempts = [p \in P |-> NoFn]
    /\ trackers = [p \in P |-> NoFn]
    /\ dispatched = [p \in P |-> 0]
    /\ maxFed = [p \in P |-> -1]
    /\ event = Event(-1, "none", -1, <<>>, "none")

\* One process, started with any --slot value.
Solo == {0}

Init == InitProcs(Solo, 0..MaxSlot)

\* ---------------------------------------------------------------- startup
\* What the environment hands to the startup sequence: whether from_url can
\* connect, and whether each key string parses.
Endpoints == {"reachable", "unreachable"}

KeyStrings == {"valid", "malformed"}

\* A startup whose connection is made lazily, so that its failure is not seen.
StartupErrorLazyConnect(endpoint, coldkey, hotkey) ==
    IF coldkey = "malformed" THEN "Invalid coldkey"
    ELSE IF hotkey = "malformed" THEN "Invalid hotkey"
    ELSE "none"

\* register_hotkey up to the loop: connect, parse coldkey, parse hotkey, each
\* ended by `?`, in this order.
StartupError(endpoint, coldkey, hotkey) ==
    IF endpoint = "unreachable" THEN "ConnectionError"
    ELSE IF coldkey = "malformed" THEN "Invalid coldkey"
    ELSE IF hotkey = "malformed" THEN "Invalid hotkey"
    ELSE "none"

\* main calls register_hotkey; Err(e) is logged and returned.
Start(p) ==
    /\ status[p] = "starting"
    /\ \E endpoint \in Endpoints, coldkey \in KeyStrings, hotkey \in KeyStrings :
         LET err == StartupError(endpoint, coldkey, hotkey) IN
         /\ status' = [status EXCEPT ![p] = IF err = "none" THEN "running" ELSE "exit_failure"]
         /\ event' = Event(p, IF err = "none" THEN "started" ELSE "startup_err", -1,
                           <<endpoint, coldkey, hotkey>>, err)
    /\ UNCHANGED <<slot_arg, slot, dispatched, last_submitted_block, loop_count, attempts, trackers, maxFed>>

\* The process's exit code: main returning Err exits non-zero; -1 stands for
\* a process that has not exited.
ExitCode(p) == IF status[p] = "exit_failure" THEN 1 ELSE -1

\* ------------------------------------------------------------ driver loop
\* A loop that joins its spawned tasks before polling again.
LoopReadyJoined(p) ==
    status[p] = "running" /\ \A b \in DOMAIN trackers[p] : trackers[p][b] # "pending"

\* A loop that stops polling once one of its tasks has confirmed success.
LoopReadyUntilSuccess(p) ==
    status[p] = "running" /\ \A b \in DOMAIN trackers[p] : trackers[p][b] # "finalized"

\* The loop body runs whenever the process is in the loop; it never awaits a
\* spawned task.
LoopReady(p) == status[p] = "running"

\* A gate that lets a repeat of the marked block through.
StaleStrict(block_number, lastb) == block_number < lastb

\* A gate that only drops an exact repeat of the marked block.
StaleOnlyRepeat(block_number, lastb) == block_number = lastb

\* Line 105: skip if block_number <= last_submitted_block.
Stale(block_number, lastb) == block_number <= lastb

\* A slot check that also takes the blocks of every lower slot.
EligibleUpTo(block_number, s) == block_number % PartitionCount <= s

\* A slot check with the comparison inverted.
EligibleInverted(block_number, s) == block_number % PartitionCount # s

\* A slot check that first reduces the slot argument into the window.
EligibleWrapped(block_number, s) == block_number % PartitionCount = s % PartitionCount

\* Lines 111-112: block_slot = block_number % 3; eligible iff block_slot = slot.
Eligible(block_number, s) == block_number % PartitionCount = s

\* A submit path that leaves the mark where it was.
NewMarkKept(block_number, lastb) == lastb

\* Line 123: last_submitted_block = block_number, before the submission.
NewMark(block_number, lastb) == block_number

Bump(f, b) == IF b \in DOMAIN f THEN [f EXCEPT ![b] = @ + 1] ELSE f @@ (b :> 1)

\* History of the descriptors the fetch returned.
Fed(p, n) == maxFed' = [maxFed EXCEPT ![p] = IF n > @ THEN n ELSE @]

\* A fetch whose error is returned with `?` instead of being logged.
FetchFailReturns(p) ==
    /\ LoopReady(p)
    /\ status' = [status EXCEPT ![p] = "exit_failure"]
    /\ event' = Event(p, "fetch_err", -1, <<>>, "none")
    /\ UNCHANGED <<slot_arg, slot, dispatched, last_submitted_block, loop_count, attempts,
                   trackers, maxFed>>

\* Lines 93-99: at_latest() failed; warn and continue.
FetchFail(p) ==
    /\ LoopReady(p)
    /\ event' = Event(p, "fetch_err", -1, <<>>, "none")
    /\ UNCHANGED <<slot_arg, slot, dispatched, status, last_submitted_block, loop_count, attempts, trackers,
                   maxFed>>

\* Lines 101-107: the fetched block is not newer than the mark; continue.
Discard(p, n) ==
    /\ LoopReady(p)
    /\ Stale(n, last_submitted_block[p])
    /\ Fed(p, n)
    /\ event' = Event(p, "discard", n, <<>>, "none")
    /\ UNCHANGED <<slot_arg, slot, dispatched, status, last_submitted_block, loop_count, attempts, trackers>>

\* A skip that leaves the mark where it was.
SkipKeepsMark(p, n) ==
    /\ LoopReady(p)
    /\ ~Stale(n, last_submitted_block[p])
    /\ ~Eligible(n, slot[p])
    /\ Fed(p, n)
    /\ event' = Event(p, "skip", n, <<>>, "none")
    /\ UNCHANGED <<slot_arg, slot, dispatched, status, last_submitted_block, loop_count,
                   attempts, trackers>>

\* Lines 109-120: a new block of another slot; move the mark and continue.
Skip(p, n) ==
    /\ LoopReady(p)
    /\ ~Stale(n, last_submitted_block[p])
    /\ ~Eligible(n, slot[p])
    /\ Fed(p, n)
    /\ last_submitted_block' = [last_submitted_block EXCEPT ![p] = n]
    /\ event' = Event(p, "skip", n, <<>>, "none")
    /\ UNCHANGED <<slot_arg, slot, dispatched, status, loop_count, attempts, trackers>>

\* A loop that returns the error of a submission it cannot classify.
AfterSubmitErrorFatalExits(class) == IF class = "Fatal" THEN "exit_failure" ELSE "running"

\* What a submission error does to the process: log it and continue the loop.
AfterSubmitError(class) == "running"

\* A failed submission that still spawns a finalization task.
SubmitFailSpawns(p, n, e) ==
    /\ LoopReady(p)
    /\ ~Stale(n, last_submitted_block[p])
    /\ Eligible(n, slot[p])
    /\ loop_count[p] < MaxLoopCount
    /\ Fed(p, n)
    /\ last_submitted_block' = [last_submitted_block EXCEPT ![p] = NewMark(n, @)]
    /\ loop_count' = [loop_count EXCEPT ![p] = @ + 1]
    /\ attempts' = [attempts EXCEPT ![p] = Bump(@, n)]
    /\ trackers' = [trackers EXCEPT ![p] = (n :> "pending") @@ @]
    /\ status' = [status EXCEPT ![p] = AfterSubmitError(ClassifySubmit(e))]
    /\ event' = Event(p, "submit_err", n, e, ClassifySubmit(e))
    /\ UNCHANGED <<slot_arg, slot, dispatched>>

\* A failed submission that, when the error is recoverable, puts the mark
\* back so that the same block is tried again.
SubmitFailRetries(p, n, e) ==
    /\ LoopReady(p)
    /\ ~Stale(n, last_submitted_block[p])
    /\ Eligible(n, slot[p])
    /\ loop_count[p] < MaxLoopCount
    /\ Fed(p, n)
    /\ last_submitted_block' =
         [last_submitted_block EXCEPT ![p] =
             IF ClassifySubmit(e) = "Recoverable" THEN @ ELSE NewMark(n, @)]
    /\ loop_count' = [loop_count EXCEPT ![p] = @ + 1]
    /\ attempts' = [attempts EXCEPT ![p] = Bump(@, n)]
    /\ status' = [status EXCEPT ![p] = AfterSubmitError(ClassifySubmit(e))]
    /\ event' = Event(p, "submit_err", n, e, ClassifySubmit(e))
    /\ UNCHANGED <<slot_arg, slot, dispatched, trackers>>

\* Lines 122-176: our slot; sign_and_submit_then_watch returned Err(e).
SubmitFail(p, n, e) ==
    /\ LoopReady(p)
    /\ ~Stale(n, last_submitted_block[p])
    /\ Eligible(n, slot[p])
    /\ loop_count[p] < MaxLoopCount
    /\ Fed(p, n)
    /\ last_submitted_block' = [last_submitted_block EXCEPT ![p] = NewMark(n, @)]
    /\ loop_count' = [loop_count EXCEPT ![p] = @ + 1]
    /\ attempts' = [attempts EXCEPT ![p] = Bump(@, n)]
    /\ status' = [status EXCEPT ![p] = AfterSubmitError(ClassifySubmit(e))]
    /\ event' = Event(p, "submit_err", n, e, ClassifySubmit(e))
    /\ UNCHANGED <<slot_arg, slot, dispatched, trackers>>

\* Lines 122-228: our slot; the transaction was dispatched and a finalization
\* task spawned for it; the loop continues at once.
Dispatch(p, n) ==
    /\ LoopReady(p)
    /\ ~Stale(n, last_submitted_block[p])
    /\ Eligible(n, slot[p])
    /\ loop_count[p] < MaxLoopCount
    /\ Fed(p, n)
    /\ last_submitted_block' = [last_submitted_block EXCEPT ![p] = NewMark(n, @)]
    /\ loop_count' = [loop_count EXCEPT ![p] = @ + 1]
    /\ attempts' = [attempts EXCEPT ![p] = Bump(@, n)]
    /\ trackers' = [trackers EXCEPT ![p] = (n :> "pending") @@ @]
    /\ dispatched' = [dispatched EXCEPT ![p] = @ + 1]
    /\ event' = Event(p, "dispatched", n, <<>>, "none")
    /\ UNCHANGED <<slot_arg, slot, status>>

\* ------------------------------------------------------ finalization task
Pending(p) == {b \in DOMAIN trackers[p] : trackers[p][b] = "pending"}

\* Lines 186-199: wait_for_finalized_success returned Ok.
FinalizeOk(p, b) ==
    /\ b \in Pending(p)
    /\ trackers' = [trackers EXCEPT ![p][b] = "finalized"]
    /\ event' = Event(p, "finalized", b, <<>>, "Finalized")
    /\ UNCHANGED <<slot_arg, slot, dispatched, status, last_submitted_block, loop_count, attempts,
                   maxFed>>

\* A task that, on a recoverable finalization error, moves the mark back so
\* that the loop submits for the same block again.
FinalizeErrRetries(p, b, e) ==
    /\ b \in Pending(p)
    /\ trackers' = [trackers EXCEPT ![p][b] = "failed"]
    /\ last_submitted_block' =
         [last_submitted_block EXCEPT ![p] =
             IF ClassifyFinal(e) = "Recoverable" /\ b > 0 THEN b - 1 ELSE @]
    /\ event' = Event(p, "final_err", b, e, ClassifyFinal(e))
    /\ UNCHANGED <<slot_arg, slot, dispatched, status, loop_count, attempts, maxFed>>

\* Lines 200-223: wait_for_finalized_success returned Err(e).
FinalizeErr(p, b, e) ==
    /\ b \in Pending(p)
    /\ trackers' = [trackers EXCEPT ![p][b] = "failed"]
    /\ event' = Event(p, "final_err", b, e, ClassifyFinal(e))
    /\ UNCHANGED <<slot_arg, slot, dispatched, status, last_submitted_block, loop_count, attempts,
                   maxFed>>

\* ---------------------------------------------------------- specifications
Blocks == 0..MaxBlock

Errors == Payloads(MaxPayloadLen)

Next ==
    \E p \in Solo :
        \/ Start(p)
        \/ FetchFail(p)
        \/ \E n \in Blocks : Discard(p, n)
        \/ \E n \in Blocks : Skip(p, n)
        \/ \E n \in Blocks, e \in Errors : SubmitFail(p, n, e)
        \/ \E n \in Blocks : Dispatch(p, n)
        \/ \E b \in Blocks : FinalizeOk(p, b)
        \/ \E b \in Blocks, e \in Errors : FinalizeErr(p, b, e)

Spec == Init /\ [][Next]_vars

\* Three processes; process p is started with --slot p.
Fleet == 0..(PartitionCount - 1)

InitFleet ==
    /\ InitProcs(Fleet, Fleet)
    /\ \A p \in Fleet : slot_arg[p] = p

FleetBlocks == 0..MaxFleetBlock

FleetErrors == Payloads(MaxFleetPayloadLen)

NextFleet ==
    \E p \in Fleet :
        \/ Start(p)
        \/ FetchFail(p)
        \/ \E n \in FleetBlocks : Discard(p, n)
        \/ \E n \in FleetBlocks : Skip(p, n)
        \/ \E n \in FleetBlocks, e \in FleetErrors : SubmitFail(p, n, e)
        \/ \E n \in FleetBlocks : Dispatch(p, n)
        \/ \E b \in FleetBlocks : FinalizeOk(p, b)
        \/ \E b \in FleetBlocks, e \in FleetErrors : FinalizeErr(p, b, e)

SpecFleet == InitFleet /\ [][NextFleet]_vars

\* ------------------------------------------------------------ properties
\* Kinds of step that fetched a block descriptor, and those among them that
\* reached the slot check (a gating decision).
FetchedKinds == {"discard", "skip", "submit_err", "dispatched"}

GateKinds == {"skip", "submit_err", "dispatched"}

\* C1: within one process, at most one submission attempt (one call of
\* sign_and_submit_then_watch) is ever made for any block number, whatever
\* blocks are observed (repeats, stale numbers) and whatever fails.
C1_AtMostOneAttemptPerBlock ==
    \A p \in Procs : \A b \in DOMAIN attempts[p] : attempts[p][b] <= 1

\* C1 witness: a block that was submitted on has been observed again.
C1_Witness ==
    /\ event.kind = "discard"
    /\ event.block \in DOMAIN attempts[event.proc]
    /\ attempts[event.proc][event.block] = 1

\* C2: last_submitted_block never decreases in any step.
C2_MarkNeverDecreases ==
    [][\A p \in Procs : last_submitted_block'[p] >= last_submitted_block[p]]_vars

\* C2 witness: after the mark advanced, an older block number was observed.
C2_Witness ==
    /\ event.kind = "discard"
    /\ event.block > 0
    /\ event.block < last_submitted_block[event.proc]

\* C3: the gating decision is block_number mod 3 = slot, and for every block
\* number exactly one slot value in 0..2 is eligible.
C3_SlotFilterPartitions ==
    /\ event.kind \in GateKinds =>
         ((event.kind # "skip") <=> (event.block % 3 = slot[event.proc]))
    /\ \A n \in Blocks :
         Cardinality({i \in 0..(PartitionCount - 1) : Eligible(n, i)}) = 1

\* C3 witness: a process has submitted on one block and skipped a later one.
C3_Witness ==
    /\ event.kind = "skip"
    /\ attempts[event.proc] # NoFn

\* C4: three processes with slots 0, 1, 2 never submit for the same block
\* number, in any interleaving of their observations.
C4_NoSharedBlock ==
    \A p \in Procs : \A q \in Procs :
        p # q => (DOMAIN attempts[p]) \cap (DOMAIN attempts[q]) = {}

\* C4 witness: each of the three processes has made a submission.
C4_Witness ==
    /\ Cardinality(Procs) = PartitionCount
    /\ \A p \in Procs : attempts[p] # NoFn

\* C5 as claimed: a fetched descriptor not above the mark is discarded and
\* changes nothing of the scheduler, and a descriptor gets a gating decision
\* exactly when it strictly exceeds every descriptor fetched before it (so
\* the two counts are equal).
C5_GatedIffRecord ==
    [][\A p \in Procs :
         (event'.proc = p /\ event'.kind \in FetchedKinds) =>
            /\ (event'.block <= last_submitted_block[p]) =>
                 /\ event'.kind = "discard"
                 /\ UNCHANGED <<last_submitted_block, loop_count, attempts, trackers>>
            /\ (event'.kind \in GateKinds) <=> (event'.block > maxFed[p])]_vars

\* C5 amended: as above, but a descriptor gets a gating decision exactly when
\* it strictly exceeds 0 and every descriptor fetched before it.
C5_GatedIffPositiveRecord ==
    [][\A p \in Procs :
         (event'.proc = p /\ event'.kind \in FetchedKinds) =>
            /\ (event'.block <= last_submitted_block[p]) =>
                 /\ event'.kind = "discard"
                 /\ UNCHANGED <<last_submitted_block, loop_count, attempts, trackers>>
            /\ (event'.kind \in GateKinds) <=>
                 (event'.block > 0 /\ event'.block > maxFed[p])]_vars

\* C5 witness: the block at the mark was fetched a second time and dropped.
C5_Witness ==
    /\ event.kind = "discard"
    /\ event.block > 0
    /\ event.block = last_submitted_block[event.proc]
    /\ maxFed[event.proc] = event.block

\* C6: while a finalization task is pending, the loop is not held up: every
\* later block of this process's slot can be observed and dispatched at once,
\* without the pending task finishing first.
C6_LoopNeverWaits ==
    \A p \in Procs : \A n \in Blocks :
        ( /\ status[p] = "running"
          /\ Pending(p) # {}
          /\ n > last_submitted_block[p]
          /\ n % 3 = slot[p]
          /\ loop_count[p] < MaxLoopCount )
        => ENABLED Dispatch(p, n)

\* C6 witness: a later block was dispatched while the task of an earlier
\* dispatch is still pending.
C6_Witness ==
    /\ event.kind = "dispatched"
    /\ \E b \in Pending(event.proc) : b < event.block

\* C7: after a submission error of any class the process is still in its
\* loop, has not exited, and its next poll can run.
C7_SubmitErrorKeepsLooping ==
    event.kind = "submit_err" =>
        /\ event.class \in {"Recoverable", "AlreadyDone", "Fatal"}
        /\ status[event.proc] = "running"
        /\ ExitCode(event.proc) # 1
        /\ ENABLED FetchFail(event.proc)
        /\ \A n \in Blocks : n <= last_submitted_block[event.proc] => ENABLED Discard(event.proc, n)

\* C7 witness: a submission error that is none of the recoverable ones.
C7_Witness ==
    /\ event.kind = "submit_err"
    /\ event.class = "Fatal"

\* C8: startup fails exactly when the endpoint is unreachable or a key is
\* malformed; a failed process has exit code 1 and has fetched, gated and
\* submitted nothing; and after a fetch, submission or finalization error
\* the process is still running.
C8_OnlyStartupFails ==
    /\ event.kind \in {"started", "startup_err"} =>
         ( (status[event.proc] = "exit_failure")
             <=> (event.payload # <<"reachable", "valid", "valid">>) )
    /\ \A p \in Procs :
         status[p] = "exit_failure" =>
            /\ ExitCode(p) = 1
            /\ maxFed[p] = -1
            /\ last_submitted_block[p] = 0
            /\ loop_count[p] = 0
            /\ attempts[p] = NoFn
            /\ trackers[p] = NoFn
    /\ event.kind \in {"fetch_err", "submit_err", "final_err"} =>
         status[event.proc] = "running"

\* C8 witness: a process that failed at startup on an unreachable endpoint.
C8_Witness ==
    /\ event.kind = "startup_err"
    /\ event.payload[1] = "unreachable"
    /\ status[event.proc] = "exit_failure"

\* C9 as claimed: every error payload containing "nonce" is classified
\* Recoverable, at submission and at finalization, and the loop goes on.
C9_NonceRecoverable ==
    (event.kind \in {"submit_err", "final_err"} /\ Contains(event.payload, <<"nonce">>)) =>
        /\ event.class = "Recoverable"
        /\ status[event.proc] = "running"

\* C9 amended: a payload containing "nonce" is classified Recoverable at
\* submission; at finalization it is Recoverable unless it also contains
\* "AlreadyRegistered", "already registered" or "duplicate", and then it is
\* AlreadyDone; the loop goes on in every case.
C9_NonceRecoverableUnlessAlready ==
    (event.kind \in {"submit_err", "final_err"} /\ Contains(event.payload, <<"nonce">>)) =>
        /\ status[event.proc] = "running"
        /\ event.class =
             IF /\ event.kind = "final_err"
                /\ \/ Contains(event.payload, <<"AlreadyRegistered">>)
                   \/ Contains(event.payload, <<"already", "registered">>)
                   \/ Contains(event.payload, <<"duplicate">>)
             THEN "AlreadyDone"
             ELSE "Recoverable"

\* C9 witness: a finalization error mentioning a nonce next to other text.
C9_Witness ==
    /\ event.kind = "final_err"
    /\ Len(event.payload) > 1
    /\ Contains(event.payload, <<"nonce">>)
    /\ event.class = "Recoverable"

\* C10: every error payload containing "AlreadyRegistered" is classified
\* AlreadyDone, at submission and at finalization, and the loop goes on.
C10_AlreadyRegisteredIsAlreadyDone ==
    (event.kind \in {"submit_err", "final_err"}
        /\ Contains(event.payload, <<"AlreadyRegistered">>)) =>
        /\ event.class = "AlreadyDone"
        /\ status[event.proc] = "running"

\* C11: every error payload gets the same class from the submission-time
\* classifier as from the finalization-time classifier.
C11_SameClassification ==
    event.kind \in {"submit_err", "final_err"} =>
        /\ event.class = ClassifySubmit(event.payload)
        /\ event.class = ClassifyFinal(event.payload)

\* C12: a step of a finalization task, whatever its outcome, changes nothing
\* of the scheduler (mark, counter, submissions made, process status) and
\* starts no task; a submission is only ever made by a loop step that
\* observed a new block of this process's slot.
C12_TrackerIsSink ==
    [][\A p \in Procs :
         /\ (event'.proc = p /\ event'.kind \in {"finalized", "final_err"}) =>
              /\ UNCHANGED <<last_submitted_block, loop_count, attempts, dispatched, status>>
              /\ DOMAIN trackers'[p] = DOMAIN trackers[p]
         /\ (attempts'[p] # attempts[p]) =>
              /\ event'.proc = p
              /\ event'.kind \in {"submit_err", "dispatched"}
              /\ event'.block > last_submitted_block[p]
              /\ event'.block % 3 = slot[p]]_vars

\* C12 witness: a task ended in a recoverable finalization error.
C12_Witness ==
    /\ event.kind = "final_err"
    /\ event.class = "Recoverable"
    /\ trackers[event.proc][event.block] = "failed"

\* C13: once a finalization task has confirmed success, the process makes no
\* further submission (the single-shot mode).
C13_NoSubmissionAfterSuccess ==
    [][\A p \in Procs :
         (\E b \in DOMAIN trackers[p] : trackers[p][b] = "finalized") =>
            attempts'[p] = attempts[p]]_vars

\* C14: the process keeps racing: whenever it is in its loop, any new block
\* of its slot can be observed, and observing it can only be a submission
\* attempt (never a skip or a discard), whatever failed or succeeded
\* before; and the step that observes such a block makes the attempt in
\* that same iteration.
C14_KeepsRacing ==
    /\ [](\A p \in Procs : \A n \in Blocks :
            ( /\ status[p] = "running"
              /\ n > last_submitted_block[p]
              /\ n % 3 = slot[p]
              /\ loop_count[p] < MaxLoopCount )
            => /\ ENABLED Dispatch(p, n)
               /\ ENABLED SubmitFail(p, n, <<>>)
               /\ ~ENABLED Skip(p, n)
               /\ ~ENABLED Discard(p, n))
    /\ [][\A p \in Procs :
            ( /\ event'.proc = p
              /\ event'.kind \in FetchedKinds
              /\ event'.block > last_submitted_block[p]
              /\ event'.block % 3 = slot[p] )
            => /\ event'.kind \in {"submit_err", "dispatched"}
               /\ loop_count'[p] = loop_count[p] + 1
               /\ event'.block \notin DOMAIN attempts[p]
               /\ event'.block \in DOMAIN attempts'[p]]_vars

\* C14 witness: a submission attempt made after an earlier task confirmed
\* success and after an earlier submission failed.
C14_Witness ==
    /\ event.kind \in {"submit_err", "dispatched"}
    /\ \E b \in DOMAIN trackers[event.proc] :
         b < event.block /\ trackers[event.proc][b] = "finalized"

\* C15 as claimed: a process started without --slot finds every new block
\* eligible, so none of its gating decisions is a skip.
C15_AbsentSlotAlwaysEligible ==
    (event.kind \in GateKinds /\ slot_arg[event.proc] = -1) => event.kind # "skip"

\* C15 amended: a process started without --slot behaves as slot 0 of 3: a
\* new block is submitted on exactly when its number mod 3 is 0.
C15_AbsentSlotIsSlotZero ==
    (event.kind \in GateKinds /\ slot_arg[event.proc] = -1) =>
        ((event.kind # "skip") <=> (event.block % 3 = 0))

\* C15 witness: a process started without --slot has submitted on a block.
C15_Witness ==
    /\ event.kind \in {"submit_err", "dispatched"}
    /\ slot_arg[event.proc] = -1
    /\ event.block > 0

\* C16: a step that observes a new block of another slot sets the mark to
\* that block's number, makes no submission, starts no task, leaves
\* loop_count unchanged and leaves the process in its loop.
C16_IneligibleAdvancesMark ==
    [][\A p \in Procs :
         ( /\ event'.proc = p
           /\ event'.kind \in FetchedKinds
           /\ event'.block > last_submitted_block[p]
           /\ event'.block % 3 # slot[p] )
         => /\ event'.kind = "skip"
            /\ last_submitted_block'[p] = event'.block
            /\ status'[p] = "running"
            /\ UNCHANGED <<loop_count, attempts, trackers, dispatched, status>>]_vars

\* C16 witness: a process with a slot in range skipped a new block before
\* submitting anything.
C16_Witness ==
    /\ event.kind = "skip"
    /\ slot[event.proc] < PartitionCount
    /\ last_submitted_block[event.proc] = event.block
    /\ attempts[event.proc] = NoFn

\* C17: the number of finalization tasks ever started equals the number of
\* successful dispatches and is at most loop_count; a dispatched block has
\* its task and a block whose submission failed has none.
C17_OneTrackerPerDispatch ==
    /\ \A p \in Procs :
         /\ Cardinality(DOMAIN trackers[p]) = dispatched[p]
         /\ dispatched[p] <= loop_count[p]
    /\ event.kind = "dispatched" => event.block \in DOMAIN trackers[event.proc]
    /\ event.kind = "submit_err" => event.block \notin DOMAIN trackers[event.proc]

\* C17 witness: a process with one failed and one dispatched submission.
C17_Witness ==
    \E p \in Procs : dispatched[p] > 0 /\ loop_count[p] > dispatched[p]

\* C18: a failed fetch changes nothing of the scheduler, makes no submission
\* and leaves the process in its loop, where the next poll can run.
C18_FetchFailureSwallowed ==
    /\ [](event.kind = "fetch_err" =>
            /\ status[event.proc] = "running"
            /\ ENABLED FetchFail(event.proc)
            /\ \A n \in Blocks :
                 n <= last_submitted_block[event.proc] => ENABLED Discard(event.proc, n))
    /\ [][\A p \in Procs :
            (event'.proc = p /\ event'.kind = "fetch_err") =>
               /\ UNCHANGED <<last_submitted_block, loop_count, attempts, trackers,
                              dispatched, maxFed, status>>
               /\ status'[p] = "running"]_vars

\* C18 witness: a fetch failed after the process had already submitted.
C18_Witness ==
    /\ event.kind = "fetch_err"
    /\ last_submitted_block[event.proc] > 0
    /\ attempts[event.proc] # NoFn

\* C19: a process whose slot is 3 or more never submits: loop_count stays 0,
\* no submission and no task exists, every gating decision is a skip, and
\* the mark still follows the largest block number fetched.
C19_OutOfRangeSlotNeverSubmits ==
    \A p \in Procs :
        slot[p] >= 3 =>
            /\ loop_count[p] = 0
            /\ dispatched[p] = 0
            /\ attempts[p] = NoFn
            /\ trackers[p] = NoFn
            /\ (event.proc = p /\ event.kind \in GateKinds) => event.kind = "skip"
            /\ last_submitted_block[p] = IF maxFed[p] > 0 THEN maxFed[p] ELSE 0

\* C19 witness: a process with slot 3 or more skipped its way to the last
\* block.
C19_Witness ==
    /\ event.kind = "skip"
    /\ slot[event.proc] >= 3
    /\ event.block = MaxBlock
    /\ last_submitted_block[event.proc] = MaxBlock

\* C20: after every loop iteration the mark is the maximum of 0 and all block
\* numbers fetched so far; block 0 never gets a gating decision; and after a
\* failed submission the mark stands at that block, which has been tried
\* once and cannot be submitted on again.
C20_MarkIsMaxFetched ==
    /\ \A p \in Procs :
         last_submitted_block[p] = IF maxFed[p] > 0 THEN maxFed[p] ELSE 0
    /\ event.kind \in GateKinds => event.block > 0
    /\ event.kind = "submit_err" =>
         /\ last_submitted_block[event.proc] = event.block
         /\ attempts[event.proc][event.block] = 1
         /\ ~ENABLED Dispatch(event.proc, event.block)
         /\ ~ENABLED SubmitFail(event.proc, event.block, event.payload)

\* C20 witness: a submission on the largest block fetched failed with a
\* recoverable error.
C20_Witness ==
    /\ event.kind = "submit_err"
    /\ event.class = "Recoverable"
    /\ maxFed[event.proc] = event.block

====
